---- MODULE Spec2Model ----
(***************************************************************************)
(* ClinIQ: the department-scoped hybrid retrieval engine                   *)
(* (app/retrieval/vector_store.py) and the LangGraph query pipeline        *)
(* (app/retrieval/graph.py, app/retrieval/nodes/*.py) as driven by the     *)
(* /query and /ingest handlers of app/api/routes.py.                       *)
(*                                                                         *)
(* Text is a sequence of atoms (one-character or one-word strings); " " is *)
(* the whitespace atom.  The external services (embedding similarity,      *)
(* BM25 scoring, the LLM) are oracles: their outputs are inputs of the     *)
(* actions, drawn from small sets.                                         *)
(***************************************************************************)
EXTENDS Integers, Sequences, FiniteSets, TLC

VARIABLES
    collections,    \* MultiCollectionVectorStore._collections: dept -> set of stored docs
    bm25,           \* MultiCollectionVectorStore._bm25: dept -> lexical index (or None)
    ingest,         \* the add_chunks call in flight on the event loop, and its outcome
    search,         \* the hybrid_search call in flight on a worker thread, and its result
    node,           \* /query handler: the graph node to run next, or where the run ended
    state,          \* GraphState of the run
    steps,          \* LangGraph supersteps taken by the run
    trace,          \* what the run has called so far (history, not program state)
    response,       \* what the /query handler answered
    token_map,      \* Vault: the rows (token, original_value) of table token_map
    users,          \* UserDB: the rows (username, role, departments) of table users
    runs,           \* the /query runs in flight side by side: run -> node, state, frame
    bm25_k          \* BM25Retriever.k of each department's index (shared by the runs)

storeVars == <<collections, bm25, ingest, search>>
queryVars == <<node, state, steps, trace, response>>
restVars == <<users, runs, bm25_k>>
vars == <<collections, bm25, ingest, search, node, state, steps, trace, response,
         token_map, users, runs, bm25_k>>

(***************************************************************************)
(* Bounds of the model and constants of the program                        *)
(***************************************************************************)
MaxIngests == 2          \* add_chunks calls in one behaviour
DefaultK == 4            \* hybrid_search(..., k: int = 4)
PrefixLen == 200         \* r.content[:200]
RrfC == 60               \* EnsembleRetriever.c (reciprocal-rank constant)
MAX_QUERY_RETRIES == 3   \* settings.MAX_QUERY_RETRIES
RecursionLimit == 25     \* LangGraph's default recursion_limit (none is configured)
SemWeight == 1           \* weights=[0.5, 0.5], in halves
LexWeight == 1

\* settings.departments_list: the configured departments, lower-cased.
Departments == {"radiology", "pharmacy"}

(***************************************************************************)
(* The user store (UserDB)                                                 *)
(***************************************************************************)
\* The keys of ROLE_HIERARCHY.
ROLE_HIERARCHY == {"admin", "doctor", "nurse", "technician", "researcher", "viewer"}

\* DEFAULT_ROLE_DEPARTMENTS.get(role, ["general"]), [] standing for all the
\* configured departments; the model's departments stand for the lists.
DEFAULT_ROLE_DEPARTMENTS(role) ==
    IF role \in {"admin", "doctor"} THEN {} ELSE {"radiology"}

\* UserDB._seed_admin: the default admin is inserted when the table is empty.
seed_admin(rows) ==
    IF Cardinality(rows) = 0
    THEN {[username |-> "admin", role |-> "admin", departments |-> Departments]}
    ELSE rows

\* UserDB.create_user: the table after the call, and whether it raised
\* ValueError (role unknown, department not configured, username taken by
\* the UNIQUE constraint).
create_user(rows, username, role, departments) ==
    LET defaulted == IF departments = {} THEN DEFAULT_ROLE_DEPARTMENTS(role)
                     ELSE departments
        dept_list == IF defaulted = {} THEN Departments ELSE defaulted
    IN  IF role \notin ROLE_HIERARCHY THEN [rows |-> rows, raised |-> TRUE]
        ELSE IF \E d \in dept_list : d \notin Departments
             THEN [rows |-> rows, raised |-> TRUE]
        ELSE IF \E row \in rows : row.username = username
             THEN [rows |-> rows, raised |-> TRUE]
        ELSE [rows |-> rows \cup {[username |-> username, role |-> role,
                                   departments |-> dept_list]},
              raised |-> FALSE]

\* UserDB.delete_user: DELETE FROM users WHERE username = ? AND role !=
\* 'admin', and cur.rowcount > 0.
delete_user_of_any_role(rows, username) ==
    LET deleted == {row \in rows : row.username = username}
    IN  [rows |-> rows \ deleted, returned |-> Cardinality(deleted) > 0]

delete_user(rows, username) ==
    LET deleted == {row \in rows : row.username = username /\ row.role # "admin"}
    IN  [rows |-> rows \ deleted, returned |-> Cardinality(deleted) > 0]

\* Department names a caller may pass: configured ones, an upper-case
\* spelling of one, and one that is not configured.
GroupNames == Departments \cup {"RADIOLOGY", "billing"}

\* Department lists a caller hands to hybrid_search: one or two names, in
\* either order, repeated, not configured, or spelt in upper case.
DepartmentLists ==
    { <<"radiology">>, <<"pharmacy">>, <<"billing">>, <<"RADIOLOGY">>,
      <<"radiology", "pharmacy">>, <<"pharmacy", "radiology">>,
      <<"radiology", "radiology">>, <<"billing", "pharmacy">> }

\* str.lower() on the names above.
lower(s) ==
    CASE s = "RADIOLOGY" -> "radiology"
      [] s = "Yes" -> "yes"
      [] s = "YES" -> "yes"
      [] s = "No" -> "no"
      [] OTHER -> s

Min(a, b) == IF a <= b THEN a ELSE b

\* Chunk texts the ingestion side may produce.
Contents == {<<"mri">>, <<"dose">>}
Sources == {"policy.pdf"}
\* The "department" key an incoming chunk's metadata may already carry.
MetaDepartments == {"none", "pharmacy"}

\* ProcessedChunk (schemas/models.py); chunk_index is the ordinal position
\* the parsers assign (chunk_index = len(chunks)).
ProcessedChunk(i, c, s, m) ==
    [chunk_index |-> i, content |-> c, source |-> s, department |-> m]

\* Lengths of the chunk lists handed to add_chunks.
BatchSizes == {0, 1, 2}

ChunkBatches ==
    UNION { [1..n -> [content : Contents, source : Sources,
                      department : MetaDepartments]] : n \in BatchSizes }

\* The batch as a list of ProcessedChunk with their ordinal positions.
Chunks(b) ==
    [i \in 1..Len(b) |->
        ProcessedChunk(i - 1, b[i].content, b[i].source, b[i].department)]

(***************************************************************************)
(* MultiCollectionVectorStore: collections and lexical indexes             *)
(***************************************************************************)
\* self._bm25[department] = None
NoIndex == [populated |-> FALSE, docs |-> {}]

\* f"{department}_{c.source}_{c.chunk_index}"
ChunkIdWithoutDepartment(department, c) == <<"", c.source, c.chunk_index>>

ChunkId(department, c) == <<department, c.source, c.chunk_index>>

\* add_chunks, the loop over chunks: the text, the metadata and the id stored
\* for one chunk.  meta["department"] = department overrides whatever the
\* incoming metadata carried.
StoredDocKeepsMeta(c, department) ==
    [id |-> ChunkId(department, c), content |-> c.content, source |-> c.source,
     department |-> IF c.department = "none" THEN department ELSE c.department]

StoredDoc(c, department) ==
    [id |-> ChunkId(department, c), content |-> c.content, source |-> c.source,
     department |-> department]

\* collection.add_texts(texts, metadatas, ids): Chroma upserts by id.
add_texts_fresh(coll, docs) == docs

add_texts(coll, docs) ==
    {x \in coll : \A y \in docs : y.id # x.id} \cup docs

\* _get_or_create_collection: the collection of `department`, created empty
\* (with its index initialised) on first reference.
CollectionsWith(colls, department) ==
    IF department \in DOMAIN colls
    THEN colls
    ELSE [d \in DOMAIN colls \cup {department} |->
            IF d = department THEN {} ELSE colls[d]]

\* _init_bm25: the value assigned to self._bm25[department].  `fails` is the
\* oracle for an exception inside the try block (collection.get() or
\* BM25Retriever.from_documents raising).
InitBm25Partial(coll, fails) ==
    IF fails THEN NoIndex
    ELSE IF coll # {} THEN [populated |-> TRUE, docs |-> {CHOOSE x \in coll : TRUE}]
    ELSE NoIndex

InitBm25(coll, fails) ==
    IF fails THEN NoIndex
    ELSE IF coll # {} THEN [populated |-> TRUE, docs |-> coll]
    ELSE NoIndex

\* add_chunks, `if department not in settings.departments_list`.
AcceptsAnyDepartment(department) == TRUE

ValidDepartment(department) == department \in Departments

\* No add_chunks call in flight.  pc: "idle"; "rebuild" (add_texts done,
\* _init_bm25 pending); "returning" (about to return normally); "noop" (the
\* empty-list return); "raised" (ValueError on its way to the handler).
IdleIngest ==
    [pc |-> "idle", calls |-> 0, name |-> "none", n |-> 0,
     pre |-> NoIndex, failed |-> FALSE]

IdleSearch ==
    [pc |-> "idle", departments |-> <<>>, k |-> 0, i |-> 0,
     all_results |-> <<>>, observed |-> <<>>, result |-> <<>>]

\* MultiCollectionVectorStore.__init__: every configured department gets its
\* (empty) collection and an absent lexical index.
StoreInit ==
    /\ collections = [d \in Departments |-> {}]
    /\ bm25 = [d \in Departments |-> NoIndex]
    /\ ingest = IdleIngest
    /\ search = IdleSearch
    /\ node = "idle"
    /\ state = [question |-> <<>>]
    /\ steps = 0
    /\ trace = [error |-> "none"]
    /\ response = [kind |-> "none"]
    /\ token_map = {}
    /\ users = seed_admin({})
    /\ runs = <<>>
    /\ bm25_k = [d \in Departments |-> DefaultK]

\* add_chunks up to and including collection.add_texts.  An empty chunk list
\* returns at once; an unknown department raises ValueError.
AddChunksCall(b, name) ==
    LET department == lower(name)
        chunks == Chunks(b)
        docs == {StoredDoc(chunks[i], department) : i \in 1..Len(chunks)}
        call == [IdleIngest EXCEPT !.name = name, !.n = Len(chunks),
                                   !.calls = ingest.calls + 1]
    IN  /\ ingest.pc = "idle"
        /\ ingest.calls < MaxIngests
        /\ IF Len(chunks) = 0
           THEN /\ ingest' = [call EXCEPT !.pc = "noop"]
                /\ UNCHANGED <<collections, bm25>>
           ELSE IF ~ValidDepartment(department)
           THEN /\ ingest' = [call EXCEPT !.pc = "raised"]
                /\ UNCHANGED <<collections, bm25>>
           ELSE LET colls == CollectionsWith(collections, department)
                IN  /\ collections' =
                          [colls EXCEPT ![department] = add_texts(@, docs)]
                    /\ bm25' = IF department \in DOMAIN bm25 THEN bm25
                               ELSE [d \in DOMAIN colls |->
                                       IF d = department THEN NoIndex ELSE bm25[d]]
                    /\ ingest' = [call EXCEPT !.pc = "rebuild",
                                              !.pre = bm25'[department]]
        /\ UNCHANGED search

\* add_chunks, self._init_bm25(department): the index is built off to the
\* side and published by one dictionary assignment.
AddChunksRebuild(fails) ==
    /\ ingest.pc = "rebuild"
    /\ bm25' = [bm25 EXCEPT ![lower(ingest.name)] =
                   InitBm25(collections[lower(ingest.name)], fails)]
    /\ ingest' = [ingest EXCEPT !.pc = "returning", !.failed = fails]
    /\ UNCHANGED <<collections, search>>

\* Control leaves add_chunks (normally or with the ValueError) and the
\* /ingest handler answers; the call's frame is gone.
AddChunksReturn ==
    /\ ingest.pc \in {"returning", "noop", "raised"}
    /\ ingest' = [IdleIngest EXCEPT !.calls = ingest.calls]
    /\ UNCHANGED <<collections, bm25, search>>

(***************************************************************************)
(* hybrid_search: per-department retrieval, fusion, dedup, truncation      *)
(***************************************************************************)
\* The rankings a retriever asked for k candidates may return over the
\* documents S: every ordering of Min(k, |S|) distinct documents (the
\* similarity and BM25 scores are the oracle).
Rankings(S, k) ==
    {r \in [1..Min(k, Cardinality(S)) -> S] :
        \A i, j \in DOMAIN r : i # j => r[i] # r[j]}

\* EnsembleRetriever.weighted_reciprocal_rank: weight / (rank + c), on the
\* common denominator of the ranks 1..DefaultK.
RrfScale == (RrfC + 1) * (RrfC + 2) * (RrfC + 3) * (RrfC + 4)

RECURSIVE RrfSum(_, _, _, _)
RrfSum(list, content, weight, rank) ==
    IF rank > Len(list) THEN 0
    ELSE (IF list[rank].content = content
          THEN (weight * RrfScale) \div (RrfC + rank) ELSE 0)
         + RrfSum(list, content, weight, rank + 1)

rrf_score(content, sem, lex) ==
    RrfSum(sem, content, SemWeight, 1) + RrfSum(lex, content, LexWeight, 1)

\* unique_by_key(all_docs, page_content): first occurrence kept.
RECURSIVE UniqueByContent(_)
UniqueByContent(docs) ==
    IF docs = <<>> THEN <<>>
    ELSE LET init == UniqueByContent(SubSeq(docs, 1, Len(docs) - 1))
             last == docs[Len(docs)]
         IN  IF \E i \in DOMAIN init : init[i].content = last.content
             THEN init ELSE Append(init, last)

\* sorted(..., reverse=True, key=rrf_score): stable, best score first.
RECURSIVE SortedTiesReversed(_, _, _)
SortedTiesReversed(docs, sem, lex) ==
    IF docs = <<>> THEN <<>>
    ELSE LET init == SortedTiesReversed(SubSeq(docs, 1, Len(docs) - 1), sem, lex)
             x == docs[Len(docs)]
             sx == rrf_score(x.content, sem, lex)
             pos == Cardinality({i \in DOMAIN init :
                                   rrf_score(init[i].content, sem, lex) > sx})
         IN  SubSeq(init, 1, pos) \o <<x>> \o SubSeq(init, pos + 1, Len(init))

SortedByScoreTiesVary(docs, sem, lex) ==
    IF search.pc = "idle" THEN SortedTiesReversed(docs, sem, lex)
    ELSE SortedTiesReversed(SortedTiesReversed(docs, sem, lex), sem, lex)

RECURSIVE SortedByScore(_, _, _)
SortedByScore(docs, sem, lex) ==
    IF docs = <<>> THEN <<>>
    ELSE LET init == SortedByScore(SubSeq(docs, 1, Len(docs) - 1), sem, lex)
             x == docs[Len(docs)]
             sx == rrf_score(x.content, sem, lex)
             \* x goes after every element scoring at least as much
             pos == Cardinality({i \in DOMAIN init :
                                   rrf_score(init[i].content, sem, lex) >= sx})
         IN  SubSeq(init, 1, pos) \o <<x>> \o SubSeq(init, pos + 1, Len(init))

\* ensemble.invoke(query)
Ensemble(sem, lex) == SortedByScore(UniqueByContent(sem \o lex), sem, lex)

\* RetrievalResult(content, source, score=0.0, page, metadata=doc.metadata)
RetrievalResult(doc) ==
    [content |-> doc.content, source |-> doc.source, score |-> 0,
     department |-> doc.department]

\* r.content[:200]
Prefix(content) == SubSeq(content, 1, Min(PrefixLen, Len(content)))

\* The dedup loop: hash(r.content[:200]) not in seen.
NoDedup(all_results) == all_results

RECURSIVE Unique(_)
Unique(all_results) ==
    IF all_results = <<>> THEN <<>>
    ELSE LET init == Unique(SubSeq(all_results, 1, Len(all_results) - 1))
             r == all_results[Len(all_results)]
         IN  IF \E i \in DOMAIN init : Prefix(init[i].content) = Prefix(r.content)
             THEN init ELSE Append(init, r)

\* unique[:k]
TruncateNothing(unique, k) == unique

Truncate(unique, k) == SubSeq(unique, 1, Min(k, Len(unique)))

\* The body of `for dept in departments` for one department: the documents
\* the department contributes, given the two rankings.
DeptDocs(index, sem, lex) ==
    IF index.populated THEN Ensemble(sem, lex) ELSE sem

\* self._collections.get(dept): the collection a department name is served
\* from.
CollectionOf(colls, dept) == colls[dept]

\* One iteration of `for dept in departments` on the call frame s, reading
\* the shared dictionaries as they are now, for a department that has a
\* collection and the candidate lists sem and lex its two retrievers return.
LoopBody(s, sem, lex) ==
    LET dept == lower(s.departments[s.i])
        index == bm25[dept]
        during == ingest.pc \in {"rebuild", "returning"}
                  /\ lower(ingest.name) = dept
        seen == [department |-> dept, index |-> index,
                 pre |-> ingest.pre, failed |-> ingest.failed,
                 chunks |-> collections[dept]]
    IN  [s EXCEPT
            !.i = @ + 1,
            !.all_results = @ \o
               [j \in 1..Len(DeptDocs(index, sem, lex)) |->
                   RetrievalResult(DeptDocs(index, sem, lex)[j])],
            !.observed = IF during THEN Append(@, seen) ELSE @]

\* `if not collection: continue`
LoopSkip(s) == [s EXCEPT !.i = @ + 1]

\* The frames one iteration may lead to, one per pair of candidate lists the
\* retrievers may return.
LoopBodies(s) ==
    LET dept == lower(s.departments[s.i])
    IN  IF dept \notin DOMAIN collections
        THEN {LoopSkip(s)}
        ELSE {LoopBody(s, sem, lex) :
                 sem \in Rankings(CollectionOf(collections, dept), s.k),
                 lex \in Rankings(bm25[dept].docs, s.k)}

\* After the loop: dedup and `return unique[:k]`.  Nothing shared is read, so
\* the step is taken together with the last iteration.
LoopExit(s) ==
    IF s.i <= Len(s.departments) THEN s
    ELSE [s EXCEPT !.pc = "done", !.all_results = <<>>,
                   !.result = Truncate(Unique(s.all_results), s.k)]

\* hybrid_search is entered with the list of departments and k, and runs its
\* first iteration.
HybridSearchCall(departments, k) ==
    /\ search.pc = "idle"
    /\ \E s \in LoopBodies([IdleSearch EXCEPT !.pc = "loop", !.k = k, !.i = 1,
                                              !.departments = departments]) :
          search' = LoopExit(s)
    /\ UNCHANGED <<collections, bm25, ingest>>
    /\ UNCHANGED queryVars

\* A later iteration of `for dept in departments`.
HybridSearchDept ==
    /\ search.pc = "loop"
    /\ \E s \in LoopBodies(search) : search' = LoopExit(s)
    /\ UNCHANGED <<collections, bm25, ingest>>
    /\ UNCHANGED queryVars

\* Values of k a caller passes to hybrid_search.
KValues == {2}

(***************************************************************************)
(* The query pipeline: GraphState, the six nodes, the conditional edges    *)
(***************************************************************************)
\* A key of GraphState that no node has written yet.
Unset == <<"<unset>">>

\* str.strip(): leading and trailing whitespace removed.
RECURSIVE strip(_)
strip(text) ==
    IF text = <<>> THEN <<>>
    ELSE IF Head(text) = " " THEN strip(Tail(text))
    ELSE IF text[Len(text)] = " " THEN strip(SubSeq(text, 1, Len(text) - 1))
    ELSE text

\* generate's answer when no document is available.
FallbackAnswer == <<"I could not find any relevant information">>
\* query_documents' default for a missing "generation".
NoDocumentsAnswer == <<"No relevant documents found">>
\* query_documents' answer on the clarification path.
ClarifyAnswer == <<"Could you clarify what you're looking for?">>

\* clarification_check: the two keys it returns.
clarification_check(st, out) ==
    [st EXCEPT !.clarification_needed = out.is_ambiguous,
               !.clarification_options = out.clarification_options]

\* route_after_clarification
route_after_clarification(st) ==
    IF st.clarification_needed THEN "END" ELSE "retrieve"

\* retrieve: the query handed to hybrid_search, question = state["question"].
retrieval_query_original(st) == CHOOSE question \in {<<"mri", "auth">>} : TRUE

retrieval_query(st) == st.question

\* retrieve: hybrid_search is called without k, so with its default.
retrieve_k_narrows_after_rewrite(st) == IF st.retry_count = 0 THEN DefaultK ELSE 1

retrieve_k(st) == DefaultK

\* retrieve: {"documents": documents, "question": question}
retrieve(st, documents) == [st EXCEPT !.documents = documents]

\* grade_documents: the documents graded "yes" (case-insensitively), in order.
RECURSIVE filtered_docs_newest_first(_, _)
filtered_docs_newest_first(documents, grades) ==
    IF documents = <<>> THEN <<>>
    ELSE LET init == filtered_docs_newest_first(SubSeq(documents, 1, Len(documents) - 1),
                                                SubSeq(grades, 1, Len(documents) - 1))
         IN  IF lower(grades[Len(documents)]) = "yes"
             THEN <<documents[Len(documents)]>> \o init ELSE init

RECURSIVE filtered_docs(_, _)
filtered_docs(documents, grades) ==
    IF documents = <<>> THEN <<>>
    ELSE LET init == filtered_docs(SubSeq(documents, 1, Len(documents) - 1),
                                   SubSeq(grades, 1, Len(documents) - 1))
         IN  IF lower(grades[Len(documents)]) = "yes"
             THEN Append(init, documents[Len(documents)]) ELSE init

grade_documents(st, grades) ==
    [st EXCEPT !.documents = filtered_docs(st.documents, grades)]

\* decide_to_generate
decide_to_generate_off_by_one(st) ==
    IF st.documents # <<>> THEN "generate"
    ELSE IF st.retry_count <= MAX_QUERY_RETRIES THEN "transform_query"
    ELSE "END"

decide_to_generate_gives_up_early(st) ==
    IF st.documents # <<>> THEN "generate"
    ELSE IF st.retry_count + 1 < MAX_QUERY_RETRIES THEN "transform_query"
    ELSE "END"

decide_to_generate_apologises_in_generate(st) ==
    IF st.documents # <<>> THEN "generate"
    ELSE IF st.retry_count < MAX_QUERY_RETRIES THEN "transform_query"
    ELSE "generate"

decide_to_generate(st) ==
    IF st.documents # <<>> THEN "generate"
    ELSE IF st.retry_count < MAX_QUERY_RETRIES THEN "transform_query"
    ELSE "END"

\* transform_query: the rewritten question (stripped), the incremented
\* retry_count, the extended audit trail.
transform_query_counts_twice(st, rewritten) ==
    [st EXCEPT !.question = strip(rewritten),
               !.retry_count = IF @ + 2 <= MAX_QUERY_RETRIES THEN @ + 2 ELSE @ + 1,
               !.query_transformations = Append(@, strip(rewritten))]

transform_query_keeps_raw(st, rewritten) ==
    [st EXCEPT !.question = strip(rewritten),
               !.retry_count = @ + 1,
               !.query_transformations = Append(@, rewritten)]

transform_query(st, rewritten) ==
    [st EXCEPT !.question = strip(rewritten),
               !.retry_count = @ + 1,
               !.query_transformations = Append(@, strip(rewritten))]

\* generate: the fallback without inference when there is no document, the
\* model's answer otherwise.
generate_always_calls_llm(st) == TRUE

generate_calls_llm(st) == st.documents # <<>>

generate(st, answer) ==
    [st EXCEPT !.generation = IF st.documents = <<>> THEN FallbackAnswer ELSE answer]

\* hallucination_check: "yes" without grading when there is no generation,
\* the grader's verdict (lower-cased) otherwise.
hallucination_check_always_calls_llm(st) == TRUE

hallucination_check_calls_llm(st) == st.generation \notin {Unset, <<>>}

hallucination_check_counts_retry(st, score) ==
    [st EXCEPT !.hallucination_score =
                   IF st.generation \in {Unset, <<>>} THEN "yes" ELSE lower(score),
               !.retry_count =
                   IF lower(score) # "yes" /\ @ < MAX_QUERY_RETRIES THEN @ + 1 ELSE @]

hallucination_check(st, score) ==
    [st EXCEPT !.hallucination_score =
        IF st.generation \in {Unset, <<>>} THEN "yes" ELSE lower(score)]

\* check_hallucination
check_hallucination_gives_up(st) == "END"

check_hallucination_regenerates_grounded(st) ==
    IF st.hallucination_score = "yes" /\ st.retry_count < MAX_QUERY_RETRIES
    THEN "generate" ELSE "END"

check_hallucination(st) ==
    IF st.hallucination_score = "yes" THEN "END"
    ELSE IF st.retry_count < MAX_QUERY_RETRIES THEN "generate"
    ELSE "END"

\* workflow: the edges of the compiled graph.
workflow_skips_grading(n, st) ==
    CASE n = "clarification_check" -> route_after_clarification(st)
      [] n = "retrieve" -> IF st.documents # <<>> THEN "generate" ELSE "grade_documents"
      [] n = "grade_documents" -> decide_to_generate(st)
      [] n = "transform_query" -> "retrieve"
      [] n = "generate" -> "hallucination_check"
      [] n = "hallucination_check" -> check_hallucination(st)

workflow(n, st) ==
    CASE n = "clarification_check" -> route_after_clarification(st)
      [] n = "retrieve" -> "grade_documents"
      [] n = "grade_documents" -> decide_to_generate(st)
      [] n = "transform_query" -> "retrieve"
      [] n = "generate" -> "hallucination_check"
      [] n = "hallucination_check" -> check_hallucination(st)

(***************************************************************************)
(* The /query handler (query_documents) driving the compiled graph         *)
(***************************************************************************)
\* user_db rows the handler may be called for.
Users ==
    { [role |-> "doctor", departments |-> <<"radiology">>],
      [role |-> "nurse", departments |-> <<"pharmacy", "radiology">>],
      [role |-> "admin", departments |-> <<"radiology", "pharmacy">>],
      \* a row of users.db written while "billing" was still configured
      [role |-> "viewer", departments |-> <<"billing", "pharmacy">>] }

\* request_body.departments: None, or a list of names.
NoDepartments == <<>>
RequestedDepartments ==
    {NoDepartments, <<"radiology">>, <<"pharmacy">>, <<"billing", "radiology">>}

\* request_body.question
Questions == {<<"mri", "auth">>}

\* What the model may answer: the rewriter (raw, before strip), the answer
\* synthesiser, the two graders, the ambiguity detector.
Rewrites == {<<" ", "mri", "scan", " ">>, <<"imaging", "auth">>}
Answers == {<<>>, <<"prior", "auth", "[Ref 1]">>, <<"<PERSON_0a1b2c3d>", "[Ref 1]">>}
BinaryScores == {"yes", "Yes", "no"}
ClarificationResults ==
    [is_ambiguous : BOOLEAN,
     clarification_options : {<<>>, <<"MRI knee?", "MRI brain?">>}]

\* settings.departments_list as a list (the configuration's order).
departments_list == <<"radiology", "pharmacy">>

\* get_user_departments
get_user_departments(user) ==
    IF user.role = "admin" THEN departments_list ELSE user.departments

\* [d for d in request_body.departments if d in allowed]
IntersectKeepsAll(requested, allowed) == requested

RECURSIVE Intersect(_, _)
Intersect(requested, allowed) ==
    IF requested = <<>> THEN <<>>
    ELSE LET rest == Intersect(Tail(requested), allowed)
         IN  IF \E i \in DOMAIN allowed : allowed[i] = Head(requested)
             THEN <<Head(requested)>> \o rest ELSE rest

\* The token vault (security/vault.py) as the handler finds it, and
\* pii_manager.deanonymize: every token the vault knows is replaced.
TokenVault == [t \in {"<PERSON_0a1b2c3d>"} |-> "Alice"]

deanonymize(text) ==
    [i \in DOMAIN text |->
        IF text[i] \in DOMAIN TokenVault THEN TokenVault[text[i]] ELSE text[i]]

\* The `inputs` dictionary of query_documents; "documents" and "generation"
\* are not among its keys.
GraphInputs(question, user, search_depts) ==
    [question |-> question, documents |-> <<>>, generation |-> Unset,
     role |-> user.role, departments |-> search_depts, retry_count |-> 0,
     hallucination_score |-> "", query_transformations |-> <<>>,
     clarification_needed |-> FALSE, clarification_options |-> <<>>]

NoResponse == [kind |-> "none"]
ErrorResponse(status) == [kind |-> "error", status |-> status]

NoTrace ==
    [retrievals |-> <<>>, gradings |-> 0, rewrites |-> 0, generations |-> 0,
     groundings |-> 0, transforms |-> 0, failed |-> "none", error |-> "none",
     user |-> [role |-> "none"], requested |-> NoDepartments]

IdleState == GraphInputs(<<>>, [role |-> "none"], <<>>)

\* hybrid_search run to completion against a store nobody writes meanwhile:
\* the lists it may return, one per choice of rankings.
RECURSIVE RunLoop(_)
RunLoop(frames) ==
    IF \A s \in frames : s.i > Len(s.departments) THEN frames
    ELSE RunLoop(UNION {LoopBodies(s) : s \in frames})

\* self._collections.get(dept) for each named department: a lookup, which
\* leaves the dictionary of collections as it is (nothing is created for a
\* name that has no collection).
RECURSIVE collections_get_or_create(_, _)
collections_get_or_create(colls, departments) ==
    IF departments = <<>> THEN colls
    ELSE collections_get_or_create(CollectionsWith(colls, lower(Head(departments))),
                                   Tail(departments))

collections_get(colls, departments) == colls

hybrid_search(departments, k) ==
    {LoopExit(s).result :
        s \in RunLoop({[IdleSearch EXCEPT !.pc = "loop", !.k = k, !.i = 1,
                                          !.departments = departments]})}

\* query_documents up to app_graph.ainvoke: the departments to search, or 403.
QueryCall(user, requested, question) ==
    LET allowed == get_user_departments(user)
        search_depts == IF requested # NoDepartments
                        THEN Intersect(requested, allowed) ELSE allowed
    IN  /\ node = "idle"
        /\ IF requested # NoDepartments /\ search_depts = <<>>
           THEN /\ node' = "responded"
                /\ response' = ErrorResponse(403)
                /\ UNCHANGED state
           ELSE /\ node' = "clarification_check"
                /\ state' = GraphInputs(question, user, search_depts)
                /\ UNCHANGED response
        /\ trace' = [trace EXCEPT !.user = user, !.requested = requested]
        /\ UNCHANGED steps
        /\ UNCHANGED storeVars

\* A node raises: the run is over, the exception travels to the handler.
Raise(cause, tr) ==
    /\ node' = "raised"
    /\ trace' = [tr EXCEPT !.error = cause]
    /\ UNCHANGED <<state, steps, response>>

\* A node returns: its update is merged and the edge out of it is followed.
Step(n, st, tr) ==
    /\ state' = st
    /\ node' = workflow(n, st)
    /\ steps' = steps + 1
    /\ trace' = tr
    /\ UNCHANGED response

\* The trace after a service call that failed.
Failed(tr, service) == [tr EXCEPT !.failed = service]

ClarificationCheck(out, fails) ==
    /\ node = "clarification_check" /\ steps < RecursionLimit
    /\ IF fails THEN Raise("inference", Failed(trace, "inference"))
       ELSE Step(node, clarification_check(state, out), trace)
    /\ UNCHANGED storeVars

Retrieve(fails) ==
    /\ node = "retrieve" /\ steps < RecursionLimit
    /\ IF fails THEN Raise("embedding", Failed(trace, "embedding"))
       ELSE \E documents \in hybrid_search(state.departments, DefaultK) :
               Step(node, retrieve(state, documents),
                    [trace EXCEPT !.retrievals = Append(@, retrieval_query(state))])
    /\ collections' = collections_get(collections, state.departments)
    /\ UNCHANGED <<bm25, ingest, search>>

\* grade_documents calls the grader once per document, with nothing around
\* the call to catch what it raises.  `failing` is the call that fails
\* (0: none).
grader_swallows(failing) == FALSE

grader_raises(failing) == failing # 0

GradeDocuments(grades, failing) ==
    LET calls == IF failing = 0 THEN Len(state.documents) ELSE failing
        tr == [trace EXCEPT !.gradings = @ + calls]
    IN  /\ node = "grade_documents" /\ steps < RecursionLimit
        /\ IF grader_raises(failing)
           THEN Raise("inference", Failed(tr, "inference"))
           ELSE Step(node, grade_documents(state, grades),
                     IF failing # 0 THEN Failed(tr, "inference") ELSE tr)
        /\ UNCHANGED storeVars

TransformQuery(rewritten, fails) ==
    LET tr == [trace EXCEPT !.rewrites = @ + 1]
    IN  /\ node = "transform_query" /\ steps < RecursionLimit
        /\ IF fails THEN Raise("inference", Failed(tr, "inference"))
           ELSE Step(node, transform_query(state, rewritten),
                     [tr EXCEPT !.transforms = @ + 1])
        /\ UNCHANGED storeVars

Generate(answer, fails) ==
    LET tr == [trace EXCEPT !.generations =
                  IF generate_calls_llm(state) THEN @ + 1 ELSE @]
    IN  /\ node = "generate" /\ steps < RecursionLimit
        /\ IF fails /\ generate_calls_llm(state)
           THEN Raise("inference", Failed(tr, "inference"))
           ELSE Step(node, generate(state, answer), tr)
        /\ UNCHANGED storeVars

HallucinationCheck(score, fails) ==
    LET tr == [trace EXCEPT !.groundings =
                  IF hallucination_check_calls_llm(state) THEN @ + 1 ELSE @]
    IN  /\ node = "hallucination_check" /\ steps < RecursionLimit
        /\ IF fails /\ hallucination_check_calls_llm(state)
           THEN Raise("inference", Failed(tr, "inference"))
           ELSE Step(node, hallucination_check(state, score), tr)
        /\ UNCHANGED storeVars

\* LangGraph stops a run that has taken recursion_limit supersteps without
\* reaching END, with GraphRecursionError.
RecursionError ==
    /\ node \notin {"idle", "END", "raised", "responded"}
    /\ steps >= RecursionLimit
    /\ Raise("recursion", trace)
    /\ UNCHANGED storeVars

\* `if user["role"] == "doctor"`: whose responses are de-anonymised.
deanonymize_for_staff(role) == role \in {"doctor", "admin"}

deanonymize_for(role) == role = "doctor"

\* query_documents after ainvoke returned: the clarification response, or the
\* answer with its sources (de-anonymised for doctors).
QueryResponse(result) ==
    LET answer == IF result.generation = Unset THEN NoDocumentsAnswer
                  ELSE result.generation
        docs == result.documents
    IN  IF result.clarification_needed /\ result.clarification_options # <<>>
        THEN [kind |-> "clarification", answer |-> ClarifyAnswer, sources |-> <<>>,
              departments_searched |-> result.departments,
              options |-> result.clarification_options]
        ELSE [kind |-> "answer",
              answer |-> IF deanonymize_for(result.role) THEN deanonymize(answer)
                         ELSE answer,
              sources |-> IF deanonymize_for(result.role)
                          THEN [i \in DOMAIN docs |->
                                  [docs[i] EXCEPT !.content = deanonymize(@)]]
                          ELSE docs,
              departments_searched |-> result.departments,
              hallucination_score |-> result.hallucination_score]

QueryReturn ==
    /\ node = "END"
    /\ response' = QueryResponse(state)
    /\ node' = "responded"
    /\ UNCHANGED <<state, steps, trace>>
    /\ UNCHANGED storeVars

\* `except Exception`: HTTP 500.
QueryFail ==
    /\ node = "raised"
    /\ response' = ErrorResponse(500)
    /\ node' = "responded"
    /\ UNCHANGED <<state, steps, trace>>
    /\ UNCHANGED storeVars

\* The collections a query may find: a fresh store, or one that has ingested
\* a two-chunk policy into radiology and a one-chunk policy into pharmacy.
SeededCollections ==
    [d \in Departments |->
        IF d = "radiology"
        THEN add_texts({}, {StoredDoc(ProcessedChunk(0, <<"mri">>, "policy.pdf", "none"), d),
                            StoredDoc(ProcessedChunk(1, <<"dose">>, "policy.pdf", "none"), d)})
        ELSE add_texts({}, {StoredDoc(ProcessedChunk(0, <<"mri">>, "policy.pdf", "none"), d)})]

QueryInit ==
    /\ collections \in {[d \in Departments |-> {}], SeededCollections}
    /\ bm25 = [d \in Departments |-> InitBm25(collections[d], FALSE)]
    /\ ingest = IdleIngest
    /\ search = IdleSearch
    /\ node = "idle"
    /\ state = IdleState
    /\ steps = 0
    /\ trace = NoTrace
    /\ response = NoResponse
    /\ token_map = {}
    /\ users = seed_admin({})
    /\ runs = <<>>
    /\ bm25_k = [d \in Departments |-> DefaultK]

QueryNext ==
    \/ \E user \in Users, requested \in RequestedDepartments, question \in Questions :
          QueryCall(user, requested, question) /\ UNCHANGED <<token_map, restVars>>
    \/ \E out \in ClarificationResults, fails \in BOOLEAN : ClarificationCheck(out, fails) /\ UNCHANGED <<token_map, restVars>>
    \/ \E fails \in BOOLEAN : Retrieve(fails) /\ UNCHANGED <<token_map, restVars>>
    \/ \E grades \in [1..Len(state.documents) -> BinaryScores],
          failing \in 0..Len(state.documents) : GradeDocuments(grades, failing) /\ UNCHANGED <<token_map, restVars>>
    \/ \E rewritten \in Rewrites, fails \in BOOLEAN : TransformQuery(rewritten, fails) /\ UNCHANGED <<token_map, restVars>>
    \/ \E answer \in Answers, fails \in BOOLEAN : Generate(answer, fails) /\ UNCHANGED <<token_map, restVars>>
    \/ \E score \in BinaryScores, fails \in BOOLEAN : HallucinationCheck(score, fails) /\ UNCHANGED <<token_map, restVars>>
    \/ RecursionError /\ UNCHANGED <<token_map, restVars>>
    \/ QueryReturn /\ UNCHANGED <<token_map, restVars>>
    \/ QueryFail /\ UNCHANGED <<token_map, restVars>>

SpecQuery == QueryInit /\ [][QueryNext]_vars

(***************************************************************************)
(* The /ingest handler (ingest_document)                                   *)
(***************************************************************************)
\* `if department not in allowed`
has_access_to_any(department, allowed) == TRUE

has_access(department, allowed) ==
    \E i \in DOMAIN allowed : allowed[i] = department

\* IngestResponse(..., department, chunks_count=len(chunks))
IngestResponse(department, n) ==
    [kind |-> "ingested", department |-> department, chunks_count |-> n]

NoRequest == [user |-> [role |-> "none"], department |-> "none"]

\* ingest_document up to the call of add_chunks and into it: the two checks
\* on the lower-cased department, the parsing of the upload (`parses`: the
\* loader accepts the file type), then add_chunks as far as add_texts.
IngestCall(user, name, b, parses) ==
    LET department == lower(name)
        allowed == get_user_departments(user)
        refusal == IF ~has_access(department, allowed) THEN 403
                   ELSE IF ~ValidDepartment(department) THEN 400
                   ELSE IF ~parses THEN 400
                   ELSE 0
    IN  /\ node = "idle"
        /\ trace' = [user |-> user, department |-> name]
        /\ IF refusal # 0
           THEN /\ response' = ErrorResponse(refusal)
                /\ UNCHANGED <<node, storeVars>>
           ELSE /\ AddChunksCall(b, department)
                /\ node' = "add_chunks"
                /\ response' = NoResponse
        /\ UNCHANGED <<state, steps>>

\* add_chunks rebuilds the index while the handler waits for it.
IngestRebuild(fails) ==
    /\ node = "add_chunks"
    /\ AddChunksRebuild(fails)
    /\ UNCHANGED queryVars

\* add_chunks is left and the handler answers: IngestResponse, or 400 for a
\* ValueError.
IngestReturn ==
    /\ node = "add_chunks"
    /\ AddChunksReturn
    /\ response' = IF ingest.pc = "raised" THEN ErrorResponse(400)
                   ELSE IngestResponse(lower(ingest.name), ingest.n)
    /\ node' = "idle"
    /\ UNCHANGED <<state, steps, trace>>

IngestInit ==
    /\ collections = [d \in Departments |-> {}]
    /\ bm25 = [d \in Departments |-> NoIndex]
    /\ ingest = IdleIngest
    /\ search = IdleSearch
    /\ node = "idle"
    /\ state = IdleState
    /\ steps = 0
    /\ trace = NoRequest
    /\ response = NoResponse
    /\ token_map = {}
    /\ users = seed_admin({})
    /\ runs = <<>>
    /\ bm25_k = [d \in Departments |-> DefaultK]

IngestNext ==
    \/ \E user \in Users, name \in GroupNames, b \in ChunkBatches, parses \in BOOLEAN :
          IngestCall(user, name, b, parses) /\ UNCHANGED <<token_map, restVars>>
    \/ \E fails \in BOOLEAN : IngestRebuild(fails) /\ UNCHANGED <<token_map, restVars>>
    \/ IngestReturn /\ UNCHANGED <<token_map, restVars>>

SpecIngest == IngestInit /\ [][IngestNext]_vars

(***************************************************************************)
(* hybrid_search as a function of the store and the candidate lists        *)
(***************************************************************************)
\* Two chunk texts that agree on their first PrefixLen characters and
\* differ after them.
LongText(last) == [i \in 1..(PrefixLen + 1) |-> IF i <= PrefixLen THEN "x" ELSE last]

\* The chunks of a collection that has ingested `contents` from one file.
Ingested(contents, d) ==
    add_texts({}, {StoredDoc(ProcessedChunk(i - 1, contents[i], "policy.pdf", "none"), d) :
                      i \in DOMAIN contents})

\* Stores a search may find: the same text in both departments next to a
\* text of their own; two long texts with a common prefix.
SearchCollections ==
    { [d \in Departments |->
          IF d = "radiology" THEN Ingested(<<<<"mri">>, <<"dose">>>>, d)
          ELSE Ingested(<<<<"mri">>, <<"renal">>>>, d)],
      [d \in Departments |->
          IF d = "radiology" THEN Ingested(<<LongText("a")>>, d)
          ELSE Ingested(<<LongText("b"), <<"mri">>>>, d)] }

\* Values of k for these searches.
SearchK == {1, 2}

\* The candidate lists the two retrievers of each department return for
\* one question and k.
CandidateLists(k) ==
    LET sem(d) == Rankings(collections[d], k)
        lex(d) == Rankings(bm25[d].docs, k)
    IN  [sem : {f \in [Departments -> UNION {sem(d) : d \in Departments}] :
                   \A d \in Departments : f[d] \in sem(d)},
         lex : {f \in [Departments -> UNION {lex(d) : d \in Departments}] :
                   \A d \in Departments : f[d] \in lex(d)}]

\* The loop of hybrid_search run to its end with these candidate lists.
RECURSIVE RunFixed(_, _)
RunFixed(s, candidates) ==
    IF s.i > Len(s.departments) THEN s
    ELSE LET dept == lower(s.departments[s.i])
         IN  RunFixed(IF dept \notin DOMAIN collections THEN LoopSkip(s)
                      ELSE LoopBody(s, candidates.sem[dept], candidates.lex[dept]),
                      candidates)

CallFrame(departments, k) ==
    [IdleSearch EXCEPT !.pc = "loop", !.k = k, !.i = 1, !.departments = departments]

\* A first call of hybrid_search; the candidate lists and the pool
\* (all_results before dedup) are kept as history.
SearchCall(departments, k, candidates) ==
    LET s == RunFixed(CallFrame(departments, k), candidates)
    IN  /\ search.pc = "idle"
        /\ search' = LoopExit(s)
        /\ trace' = [candidates |-> candidates, pool |-> s.all_results]
        /\ UNCHANGED <<collections, bm25, ingest, node, state, steps, response>>

\* A second call with the same arguments, the retrievers returning the same
\* candidate lists.
SearchAgain ==
    /\ search.pc = "done"
    /\ response = NoResponse
    /\ response' =
          [kind |-> "results",
           result |-> LoopExit(RunFixed(CallFrame(search.departments, search.k),
                                        trace.candidates)).result]
    /\ UNCHANGED <<collections, bm25, ingest, search, node, state, steps, trace>>

SearchInit ==
    /\ collections \in SearchCollections
    /\ \E failed \in SUBSET {"pharmacy"} :
          bm25 = [d \in Departments |-> InitBm25(collections[d], d \in failed)]
    /\ ingest = IdleIngest
    /\ search = IdleSearch
    /\ node = "idle"
    /\ state = IdleState
    /\ steps = 0
    /\ trace = [candidates |-> <<>>, pool |-> <<>>]
    /\ response = NoResponse
    /\ token_map = {}
    /\ users = seed_admin({})
    /\ runs = <<>>
    /\ bm25_k = [d \in Departments |-> DefaultK]

SearchNext ==
    \/ \E departments \in DepartmentLists, k \in SearchK :
          \E candidates \in CandidateLists(k) : SearchCall(departments, k, candidates) /\ UNCHANGED <<token_map, restVars>>
    \/ SearchAgain /\ UNCHANGED <<token_map, restVars>>

SpecSearch == SearchInit /\ [][SearchNext]_vars

StoreNext ==
    \/ \E b \in ChunkBatches, name \in GroupNames :
          AddChunksCall(b, name) /\ UNCHANGED queryVars /\ UNCHANGED <<token_map, restVars>>
    \/ \E fails \in BOOLEAN : AddChunksRebuild(fails) /\ UNCHANGED queryVars /\ UNCHANGED <<token_map, restVars>>
    \/ AddChunksReturn /\ UNCHANGED queryVars /\ UNCHANGED <<token_map, restVars>>
    \/ \E departments \in DepartmentLists, k \in KValues :
          HybridSearchCall(departments, k) /\ UNCHANGED <<token_map, restVars>>
    \/ HybridSearchDept /\ UNCHANGED <<token_map, restVars>>

SpecStore == StoreInit /\ [][StoreNext]_vars

(***************************************************************************)
(* Properties of the store (SpecStore)                                     *)
(***************************************************************************)
\* The departments a finished search named, as the store identifies them.
SearchedDepartments ==
    {lower(search.departments[j]) : j \in DOMAIN search.departments}

\* C1 (Isolation): whatever has been ingested into whatever departments, a
\* finished hybrid search naming the departments G returns only results
\* whose department attribute is one of G (names identified up to case, as
\* the store identifies them), also when the same content is stored in a
\* department outside G.
Isolation ==
    search.pc = "done" =>
        \A i \in DOMAIN search.result :
            search.result[i].department \in SearchedDepartments

\* A search has returned something while a chunk with the same content sits
\* in a department the search did not name.
IsolationWitness ==
    /\ search.pc = "done"
    /\ search.result # <<>>
    /\ \E d \in DOMAIN collections \ SearchedDepartments :
          \E x \in collections[d] : x.content = search.result[1].content

\* The call in flight names a department that is not configured.
InvalidGroup == lower(ingest.name) \notin Departments

\* C8 (AddChunks rejection), as stated: every add_chunks call naming a
\* department that is not configured fails with the invalid-group error.
AddChunksRejectionAsStated ==
    (ingest.pc # "idle" /\ InvalidGroup) => ingest.pc = "raised"

\* C8 (AddChunks rejection), amended: add_chunks with a non-empty chunk list
\* and a department that is not configured fails with the invalid-group
\* error; with an empty chunk list it returns without error whatever the
\* department.  In both cases no collection is created and no collection's
\* chunk set or lexical index changes.
AddChunksRejection ==
    /\ [](ingest.pc # "idle" =>
            /\ (InvalidGroup /\ ingest.n > 0) => ingest.pc = "raised"
            /\ ingest.n = 0 => ingest.pc = "noop"
            /\ ingest.pc = "raised" => InvalidGroup)
    /\ [][ingest'.pc \in {"raised", "noop"} =>
            /\ collections' = collections
            /\ bm25' = bm25
            /\ DOMAIN collections' = Departments]_vars

\* A non-empty batch for a department that is not configured was rejected.
AddChunksRejectionWitness ==
    /\ ingest.pc = "raised"
    /\ ingest.n > 0
    /\ InvalidGroup

\* The lexical index built from everything the collection holds.
FullIndex(chunks) == [populated |-> TRUE, docs |-> chunks]

\* C9 (Synchronous lexical rebuild): whenever add_chunks is about to return
\* successfully after adding chunks to a department, that department's
\* lexical index is populated and covers exactly the collection's current
\* chunk set.
SynchronousLexicalRebuild ==
    ingest.pc = "returning" =>
        bm25[lower(ingest.name)] = FullIndex(collections[lower(ingest.name)])

\* C10 (Atomic index visibility), as stated: a search iteration that runs
\* while add_chunks is in flight on the same department sees the index as it
\* was before the rebuild or the fully rebuilt one, and never an absent one.
AtomicIndexVisibilityAsStated ==
    \A n \in DOMAIN search.observed :
        LET o == search.observed[n]
        IN  /\ o.index = o.pre \/ o.index = FullIndex(o.chunks)
            /\ o.index.populated

\* C10 (Atomic index visibility), amended: a search iteration that runs
\* while add_chunks is in flight on the same department sees the index
\* exactly as it was before the rebuild (absent if the department had no
\* index before) or exactly as the rebuild published it (built from the full
\* chunk set, or absent when the build raised), never a partially built one.
AtomicIndexVisibility ==
    \A n \in DOMAIN search.observed :
        LET o == search.observed[n]
        IN  \/ o.index = o.pre
            \/ o.index = FullIndex(o.chunks)
            \/ o.failed /\ o.index = NoIndex

\* A search read the old, populated index of a department whose collection
\* already held the chunks of the call in flight.
AtomicIndexVisibilityWitness ==
    \E n \in DOMAIN search.observed :
        LET o == search.observed[n]
        IN  /\ o.index = o.pre
            /\ o.pre.populated
            /\ o.pre.docs # o.chunks

(***************************************************************************)
(* Properties of one query (SpecQuery)                                     *)
(***************************************************************************)
\* C2 (Termination): a run none of whose service calls failed is never cut
\* short: it is not the step limit that stops the recall loop or the
\* regeneration loop, so such a run always gets to END.
Termination == trace.error # "recursion"

\* C3 (Retry monotonicity): in a run started with retry_count = 0,
\* retry_count never exceeds MAX_QUERY_RETRIES and no transition lowers it.
RetryMonotonicity ==
    /\ [](state.retry_count <= MAX_QUERY_RETRIES)
    /\ [][state'.retry_count >= state.retry_count]_vars

\* A run has used its whole budget of rewrites and has been answered.
RetryMonotonicityWitness ==
    /\ node = "responded"
    /\ state.retry_count = MAX_QUERY_RETRIES

\* C4 (Clarification short-circuit): whenever the ambiguity judgment was
\* true, the handler answers with a clarification response that carries no
\* retrieval result, and the run made no retrieval, grading, rewrite or
\* generation call.
ClarificationShortCircuit ==
    (node = "responded" /\ state.clarification_needed) =>
        /\ response.kind = "clarification"
        /\ response.sources = <<>>
        /\ trace.retrievals = <<>>
        /\ trace.gradings = 0 /\ trace.rewrites = 0 /\ trace.generations = 0

\* The run is over (or about to be answered) after grade_documents left no
\* document with the budget of rewrites used up.
Exhausted ==
    /\ node \in {"END", "responded"}
    /\ trace.error = "none"
    /\ ~state.clarification_needed
    /\ state.documents = <<>>
    /\ state.retry_count = MAX_QUERY_RETRIES

\* C5 (Exhausted recall budget): when grade_documents leaves no document and
\* retry_count = MAX_QUERY_RETRIES, the run goes to END with no further
\* rewrite or retrieval; the handler then returns the apology as a normal
\* answer, not an error, and no generation call was made in the run.
ExhaustedRecallBudget ==
    /\ [][(/\ node = "grade_documents"
           /\ node' # "raised"
           /\ state'.documents = <<>>
           /\ state.retry_count = MAX_QUERY_RETRIES)
          => (/\ node' = "END"
              /\ trace'.rewrites = trace.rewrites
              /\ trace'.retrievals = trace.retrievals)]_vars
    /\ [](Exhausted =>
            /\ trace.generations = 0
            /\ trace.transforms = MAX_QUERY_RETRIES
            /\ Len(trace.retrievals) = MAX_QUERY_RETRIES + 1
            /\ node = "responded" =>
                  /\ response.kind = "answer"
                  /\ response.answer = NoDocumentsAnswer
                  /\ response.sources = <<>>)

\* Such a run has been answered, after a retrieval that did find documents.
ExhaustedRecallBudgetWitness ==
    /\ Exhausted
    /\ node = "responded"
    /\ trace.gradings > 0

\* C6 (Audit completeness): the audit trail is as long as the number of
\* transform_query transitions taken and as retry_count; no transition
\* changes or removes an entry already there; entry i is the question the
\* retrieval after rewrite i used (and the current question while that
\* retrieval is still to come).
AuditCompleteness ==
    /\ [](/\ Len(state.query_transformations) = trace.transforms
          /\ Len(state.query_transformations) = state.retry_count
          /\ \A i \in DOMAIN state.query_transformations :
                IF i + 1 <= Len(trace.retrievals)
                THEN trace.retrievals[i + 1] = state.query_transformations[i]
                ELSE state.question = state.query_transformations[i])
    /\ [][\A i \in DOMAIN state.query_transformations :
             /\ i \in DOMAIN state'.query_transformations
             /\ state'.query_transformations[i] = state.query_transformations[i]]_vars

\* Two rewrites, the first one returned with whitespace around it, each
\* followed by its retrieval.
AuditCompletenessWitness ==
    /\ Len(state.query_transformations) = 2
    /\ Len(trace.retrievals) = 3
    /\ state.query_transformations[1] = <<"mri", "scan">>

\* C7 (Inference failure propagation): when a call to the model fails in
\* grading, generation, rewriting or groundedness grading, the node changes
\* nothing in the pipeline state (no default verdict takes the place of the
\* failed one), the run aborts, and the handler answers with an error that
\* carries no answer.
InferenceFailurePropagation ==
    /\ [](trace.failed = "inference" =>
            /\ node \in {"raised", "responded"}
            /\ trace.error = "inference"
            /\ node = "responded" => response = ErrorResponse(500))
    /\ [][(trace.failed = "none" /\ trace'.failed = "inference") =>
             (state' = state /\ node' = "raised")]_vars

\* The grader failed on the second document of a retrieval, and the handler
\* has answered.
InferenceFailurePropagationWitness ==
    /\ trace.failed = "inference"
    /\ trace.gradings = 2
    /\ trace.generations = 0
    /\ node = "responded"

\* The elements of a list of department names.
Range(list) == {list[i] : i \in DOMAIN list}

\* C15 (Invalid group in a query): a query that names a department outside
\* the configured set is answered with an error, and that error is the
\* rejection of the name, not the failure of a service during a run.
InvalidGroupInQuery ==
    (node = "responded" /\ Range(trace.requested) \ Departments # {}) =>
        /\ response.kind = "error"
        /\ trace.error = "none"

\* C16 (Query access scope): the departments handed to the pipeline are
\* always among those the caller may access; when specific departments are
\* requested and none of them is accessible, the answer is 403 and the
\* pipeline is never started.
QueryAccessScope ==
    LET allowed == Range(get_user_departments(trace.user))
        refused == /\ trace.requested # NoDepartments
                   /\ Range(trace.requested) \cap allowed = {}
    IN  node # "idle" =>
            /\ Range(state.departments) \subseteq allowed
            /\ refused =>
                  /\ node = "responded"
                  /\ response = ErrorResponse(403)
                  /\ state = IdleState /\ steps = 0
                  /\ trace = [NoTrace EXCEPT !.user = trace.user,
                                             !.requested = trace.requested]
            /\ ~refused => response # ErrorResponse(403)

\* A caller asked only for a department that is not theirs and was refused.
QueryAccessScopeWitness ==
    /\ response = ErrorResponse(403)
    /\ trace.user.role = "doctor"
    /\ trace.requested = <<"pharmacy">>

OneChunkSearched ==
    /\ node # "idle"
    /\ Len(state.departments) = 1
    /\ state.departments[1] \in DOMAIN collections
    /\ Cardinality(collections[state.departments[1]]) = 1

\* The run is over; it judged the question specific, the relevance grader
\* was asked once and said yes, and the groundedness grader was asked once,
\* about the answer the run ended with, and said yes.
HappyVerdicts ==
    /\ node \in {"END", "responded"}
    /\ trace.error = "none"
    /\ ~state.clarification_needed
    /\ trace.gradings = 1 /\ state.documents # <<>>
    /\ trace.groundings = 1 /\ state.hallucination_score = "yes"
    /\ hallucination_check_calls_llm(state)

\* C20 (Happy path): with a question judged specific, one department
\* searched that holds one chunk, the relevance grader answering yes for it
\* and the groundedness grader answering yes for the answer, the run goes
\* clarification_check, retrieve, grade_documents, generate,
\* hallucination_check, END, each once, and ends with retry_count 0, an empty
\* audit trail, a non-empty answer and the searched departments equal to
\* the requested ones.
HappyPath ==
    /\ [][(OneChunkSearched /\ node' # "raised") =>
            /\ (node = "clarification_check" /\ ~state'.clarification_needed)
                  => node' = "retrieve"
            /\ node = "retrieve"
                  => (node' = "grade_documents" /\ Len(state'.documents) = 1)
            /\ (node = "grade_documents" /\ state'.documents # <<>>)
                  => node' = "generate"
            /\ node = "generate" => node' = "hallucination_check"
            /\ (node = "hallucination_check" /\ state'.hallucination_score = "yes")
                  => node' = "END"]_vars
    /\ []((OneChunkSearched /\ HappyVerdicts) =>
            /\ steps = 5
            /\ Len(trace.retrievals) = 1
            /\ trace.generations = 1
            /\ trace.transforms = 0 /\ trace.rewrites = 0
            /\ state.retry_count = 0
            /\ state.query_transformations = <<>>
            /\ node = "responded" =>
                  /\ response.kind = "answer"
                  /\ response.answer # <<>>
                  /\ Len(response.sources) = 1
                  /\ response.departments_searched = trace.requested)

\* Such a run has been answered.
HappyPathWitness ==
    /\ OneChunkSearched
    /\ HappyVerdicts
    /\ node = "responded"

\* C11 (Ingest mutual exclusion): add_chunks calls run one after the other,
\* so once two calls have returned, the lexical index of every department
\* that holds chunks covers all of them, those of both calls included.
IngestMutualExclusion ==
    (ingest.pc = "idle" /\ ingest.calls >= 2) =>
        \A d \in DOMAIN collections :
            collections[d] # {} => bm25[d] = FullIndex(collections[d])

(***************************************************************************)
(* Properties of the /ingest handler (SpecIngest)                          *)
(***************************************************************************)
\* The lower-cased target of the latest /ingest request is one of the
\* caller's departments, and is configured.
TargetAccessible ==
    lower(trace.department) \in Range(get_user_departments(trace.user))

TargetConfigured == lower(trace.department) \in Departments

\* C17 (Ingest access control): the handler writes to a collection only when
\* the target department is one of the caller's and is configured, and then
\* only to that department; otherwise it answers 403 (no access) or 400 (not
\* configured) and neither a collection nor an index changes.
IngestAccessControl ==
    /\ [][(collections' # collections \/ bm25' # bm25) =>
            /\ TargetAccessible' /\ TargetConfigured'
            /\ DOMAIN collections' = DOMAIN collections
            /\ \A d \in DOMAIN collections \ {lower(trace'.department)} :
                  collections'[d] = collections[d] /\ bm25'[d] = bm25[d]]_vars
    /\ [](trace # NoRequest =>
            /\ ~TargetAccessible => (node = "idle" /\ response = ErrorResponse(403))
            /\ (TargetAccessible /\ ~TargetConfigured)
                  => (node = "idle" /\ response = ErrorResponse(400)))
    /\ [][(trace' # trace /\ ~(TargetAccessible' /\ TargetConfigured')) =>
             (collections' = collections /\ bm25' = bm25)]_vars

\* After a successful ingest, a caller was refused a department that is
\* configured and holds chunks but is not theirs.
IngestAccessControlWitness ==
    /\ response = ErrorResponse(403)
    /\ TargetConfigured
    /\ collections[lower(trace.department)] # {}

(***************************************************************************)
(* Properties of hybrid_search (SpecSearch)                                *)
(***************************************************************************)
\* The fused score of a result within its department, from the candidate
\* lists of the call: both lists where the department has a lexical index,
\* the semantic list alone where it has none.
FusedScore(r) ==
    LET sem == trace.candidates.sem[r.department]
        lex == trace.candidates.lex[r.department]
    IN  IF bm25[r.department].populated THEN rrf_score(r.content, sem, lex)
        ELSE RrfSum(sem, r.content, SemWeight, 1)

\* The pool entry a returned result stands for.
Returned(p) ==
    \E i \in DOMAIN search.result :
        Prefix(search.result[i].content) = Prefix(p.content)

\* C12 (Best-first ranking): the returned list is in descending order of
\* score over the merged pool of all named departments, and truncation
\* drops no candidate that scores higher than one that is returned.
BestFirstRanking ==
    search.pc = "done" =>
        /\ \A i, j \in DOMAIN search.result :
              i < j => FusedScore(search.result[i]) >= FusedScore(search.result[j])
        /\ \A n \in DOMAIN trace.pool : \A i \in DOMAIN search.result :
              ~Returned(trace.pool[n]) =>
                  FusedScore(search.result[i]) >= FusedScore(trace.pool[n])

\* C13 (Result bound): a finished hybrid search has returned at most k
\* results, however many departments were named and however many candidates
\* each contributed.
ResultBound == search.pc = "done" => Len(search.result) <= search.k

\* A search over two departments whose pool held more than k distinct
\* texts returned exactly k.
ResultBoundWitness ==
    /\ search.pc = "done"
    /\ Len(search.departments) = 2
    /\ Len(Unique(trace.pool)) > search.k
    /\ Len(search.result) = search.k

\* The first entry of the pool with the same content prefix as r.
FirstOccurrence(r) ==
    trace.pool[CHOOSE n \in DOMAIN trace.pool :
                  /\ Prefix(trace.pool[n].content) = Prefix(r.content)
                  /\ \A m \in 1..(n - 1) :
                        Prefix(trace.pool[m].content) # Prefix(r.content)]

\* C14 (Dedup): no two returned results have the same content prefix (so a
\* text stored in two searched departments comes back at most once), and of
\* several pool entries with one prefix the first is the one returned.
Dedup ==
    search.pc = "done" =>
        /\ \A i, j \in DOMAIN search.result :
              i # j => Prefix(search.result[i].content) # Prefix(search.result[j].content)
        /\ \A i \in DOMAIN search.result :
              search.result[i] = FirstOccurrence(search.result[i])

\* The same text was a candidate from two departments and was returned once,
\* from the department named first.
DedupWitness ==
    /\ search.pc = "done"
    /\ \E m, n \in DOMAIN trace.pool :
          /\ m < n
          /\ trace.pool[m].content = trace.pool[n].content
          /\ trace.pool[m].department # trace.pool[n].department
          /\ \E i \in DOMAIN search.result : search.result[i] = trace.pool[m]

SuffixLen == 8           \* str(uuid.uuid4())[:8]
MaxStores == 3           \* vault.store calls in one behaviour
MaxTextLen == 3          \* symbols of a text given to anonymize
MaxEntities == 2         \* spans the analyzer reports for one text

\* Python's None, a value no text equals.
None == <<"None">>

EntityTypes == {"PERSON", "US_SSN"}
Upper == EntityTypes \cup {"_"}
Hex == {"0", "a"}
Words == {"John", "has"}

\* The values str(uuid.uuid4())[:8] takes in the model.
Suffixes == {[i \in 1..SuffixLen |-> h] : h \in Hex}

\* f"<{entity_type}_{suffix}>"
generate_token(entity_type, suffix) ==
    <<"<", entity_type, "_">> \o suffix \o <<">">>

Tokens == {generate_token(t, x) : t \in EntityTypes, x \in Suffixes}

\* INSERT OR IGNORE: the row already stored under the token stays.
store_or_ignore(rows, token, original_value) ==
    IF \E r \in rows : r.token = token THEN rows
    ELSE rows \cup {[token |-> token, original_value |-> original_value]}

\* Vault.store: INSERT OR REPLACE on the primary key token.
store(rows, token, original_value) ==
    {r \in rows : r.token # token}
        \cup {[token |-> token, original_value |-> original_value]}

\* Vault.get: the selected row's value, None when fetchone() finds no row.
get(rows, token) ==
    IF \E r \in rows : r.token = token
    THEN (CHOOSE r \in rows : r.token = token).original_value
    ELSE None

\* analyzer.analyze: spans [start, end) of the text with an entity type.
Spans(text) ==
    [start : 0..(Len(text) - 1), end : 1..Len(text), entity_type : EntityTypes]

Overlap(a, b) == a.start < b.end /\ b.start < a.end

\* The results the analyzer may give for a text: up to MaxEntities spans of
\* words, no two of them overlapping.
AnalyzerResults(text) ==
    LET found == {r \in Spans(text) :
                     /\ r.start < r.end
                     /\ \A i \in (r.start + 1)..r.end : text[i] \in Words}
        RECURSIVE upto(_)
        upto(n) == IF n = 0 THEN {{}}
                   ELSE upto(n - 1) \cup
                        UNION {{rs \cup {r} :
                                   r \in {x \in found : \A a \in rs : ~Overlap(a, x)}} :
                               rs \in upto(n - 1)}
    IN  upto(MaxEntities)

\* sorted(results, key=lambda x: x.start, reverse=True)
RECURSIVE sorted_results(_)
sorted_results(results) ==
    IF results = {} THEN <<>>
    ELSE LET last == CHOOSE r \in results : \A o \in results : o.start <= r.start
         IN  <<last>> \o sorted_results(results \ {last})

\* text[start:end]
Slice(text, start, end) == SubSeq(text, start + 1, end)

\* anonymized_text[start:end] = list(token)
SliceAssign(list, start, end, token) ==
    SubSeq(list, 1, start) \o token \o SubSeq(list, end + 1, Len(list))

\* The loop of anonymize over sorted_results[n..]: each result gets a fresh
\* token, its original value goes to the vault, the token into the text.
RECURSIVE AnonymizeLoop(_, _, _, _, _)
AnonymizeLoop(text, sorted, suffixes, n, acc) ==
    IF n > Len(sorted) THEN acc
    ELSE LET result == sorted[n]
             original_value == Slice(text, result.start, result.end)
             token == generate_token(result.entity_type, suffixes[n])
         IN  AnonymizeLoop(text, sorted, suffixes, n + 1,
                 [rows |-> store(acc.rows, token, original_value),
                  stores |-> Append(acc.stores, <<token, original_value>>),
                  anonymized_text |->
                      SliceAssign(acc.anonymized_text, result.start, result.end, token)])

\* The length of the match of <[A-Z_]+_[a-f0-9]{8}> at position i, 0 if none.
MatchLen(text, i) ==
    LET fits(m) ==
            /\ i + m + 2 + SuffixLen <= Len(text)
            /\ \A j \in 1..m : text[i + j] \in Upper
            /\ text[i + m + 1] = "_"
            /\ \A j \in 1..SuffixLen : text[i + m + 1 + j] \in Hex
            /\ text[i + m + 2 + SuffixLen] = ">"
    IN  IF text[i] = "<" /\ \E m \in 1..Len(text) : fits(m)
        THEN (CHOOSE m \in 1..Len(text) : fits(m)) + 3 + SuffixLen
        ELSE 0

\* replace_match: `original if original else token`
replace_match(rows, token) ==
    LET original == get(rows, token)
    IN  IF original # None /\ original # <<>> THEN original ELSE token

\* deanonymize: re.sub(pattern, replace_match, text) from position i on,
\* leftmost matches, left to right.
RECURSIVE re_sub(_, _, _)
re_sub(rows, text, i) ==
    IF i > Len(text) THEN <<>>
    ELSE LET n == MatchLen(text, i)
         IN  IF n > 0
             THEN replace_match(rows, SubSeq(text, i, i + n - 1))
                      \o re_sub(rows, text, i + n)
             ELSE <<text[i]>> \o re_sub(rows, text, i + 1)

\* The texts given to anonymize: short texts of words, and a text that
\* quotes a token (a chunk of a document exported from the system).
Texts ==
    UNION {[1..n -> Words] : n \in 1..MaxTextLen}
        \cup {<<"John">> \o generate_token("PERSON", [i \in 1..SuffixLen |-> "0"])}

StoredValues == {<<"Ann">>, <<>>}

NoVaultTrace == [stores |-> <<>>, text |-> <<>>, results |-> {}]

\* vault.store(token, original_value)
VaultStore(token, original_value) ==
    /\ response.kind = "none"
    /\ Len(trace.stores) < MaxStores
    /\ token_map' = store(token_map, token, original_value)
    /\ trace' = [trace EXCEPT !.stores = Append(@, <<token, original_value>>)]
    /\ UNCHANGED <<collections, bm25, ingest, search, node, state, steps, response>>

\* vault.get(token)
VaultGet(token) ==
    /\ response.kind = "none"
    /\ response' = [kind |-> "get", token |-> token, value |-> get(token_map, token)]
    /\ UNCHANGED <<collections, bm25, ingest, search, node, state, steps, trace,
                   token_map>>

\* pii_manager.anonymize(text)
Anonymize(text, results, suffixes) ==
    /\ response.kind = "none"
    /\ LET out == AnonymizeLoop(text, sorted_results(results), suffixes, 1,
                      [rows |-> token_map, stores |-> trace.stores,
                       anonymized_text |-> text])
       IN  /\ token_map' = out.rows
           /\ trace' = [stores |-> out.stores, text |-> text, results |-> results]
           /\ response' = [kind |-> "anonymized", text |-> out.anonymized_text]
    /\ UNCHANGED <<collections, bm25, ingest, search, node, state, steps>>

\* pii_manager.deanonymize(anonymized)
Deanonymize ==
    /\ response.kind = "anonymized"
    /\ response' = [kind |-> "restored", anonymized |-> response.text,
                    text |-> re_sub(token_map, response.text, 1)]
    /\ UNCHANGED <<collections, bm25, ingest, search, node, state, steps, trace,
                   token_map>>

VaultInit ==
    /\ collections = [d \in Departments |-> {}]
    /\ bm25 = [d \in Departments |-> NoIndex]
    /\ ingest = IdleIngest
    /\ search = IdleSearch
    /\ node = "idle"
    /\ state = IdleState
    /\ steps = 0
    /\ trace = NoVaultTrace
    /\ response = NoResponse
    /\ token_map = {}
    /\ users = seed_admin({})
    /\ runs = <<>>
    /\ bm25_k = [d \in Departments |-> DefaultK]

VaultNext ==
    \/ \E token \in Tokens, original_value \in StoredValues :
          VaultStore(token, original_value) /\ UNCHANGED restVars
    \/ \E token \in Tokens : VaultGet(token) /\ UNCHANGED restVars

SpecVault == VaultInit /\ [][VaultNext]_vars

\* The vault as anonymize may find it: empty, or holding the token of a
\* person anonymized in an earlier document.
InitialVaults ==
    {{}, store({}, generate_token("PERSON", [i \in 1..SuffixLen |-> "0"]), <<"Ann">>)}

PiiInit ==
    /\ collections = [d \in Departments |-> {}]
    /\ bm25 = [d \in Departments |-> NoIndex]
    /\ ingest = IdleIngest
    /\ search = IdleSearch
    /\ node = "idle"
    /\ state = IdleState
    /\ steps = 0
    /\ trace = NoVaultTrace
    /\ response = NoResponse
    /\ token_map \in InitialVaults
    /\ users = seed_admin({})
    /\ runs = <<>>
    /\ bm25_k = [d \in Departments |-> DefaultK]

PiiNext ==
    \/ \E text \in Texts : \E results \in AnalyzerResults(text) :
          \E suffixes \in [1..Cardinality(results) -> Suffixes] :
              Anonymize(text, results, suffixes) /\ UNCHANGED restVars
    \/ Deanonymize /\ UNCHANGED restVars

SpecPii == PiiInit /\ [][PiiNext]_vars

(***************************************************************************)
(* Properties of the vault and the PII manager (SpecPii)                   *)
(***************************************************************************)
\* The value of the last store call under the token, None if there was none.
LastStored(stores, token) ==
    LET calls == {n \in DOMAIN stores : stores[n][1] = token}
    IN  IF calls = {} THEN None
        ELSE stores[CHOOSE n \in calls : \A m \in calls : m <= n][2]

\* C21 (Vault lookup): after any sequence of store calls, get(token) returns
\* the value most recently stored under the token, and None for a token that
\* was never stored.
VaultLookup ==
    response.kind = "get" =>
        response.value = LastStored(trace.stores, response.token)

\* A token was stored twice with different values, another token never, and
\* get was called on the first.
VaultLookupWitness ==
    /\ response.kind = "get"
    /\ \E m, n \in DOMAIN trace.stores :
          /\ m < n
          /\ trace.stores[m][1] = response.token
          /\ trace.stores[n][1] = response.token
          /\ trace.stores[m][2] # trace.stores[n][2]
    /\ \E token \in Tokens : get(token_map, token) = None

\* value occurs in text as a contiguous run of symbols.
Contains(text, value) ==
    \E i \in 1..(Len(text) - Len(value) + 1) :
        SubSeq(text, i, i + Len(value) - 1) = value

\* The store calls the last anonymize made, one per analyzer result.
AnonymizeStores ==
    SubSeq(trace.stores, Len(trace.stores) - Cardinality(trace.results) + 1,
           Len(trace.stores))

\* C22 (PII round trip): deanonymize(anonymize(text)) is the original text,
\* the anonymized text contains none of the detected sensitive values, and
\* each was replaced by a token under which the vault holds the value.
PiiRoundTrip ==
    response.kind = "restored" =>
        /\ response.text = trace.text
        /\ \A r \in trace.results :
              ~Contains(response.anonymized, Slice(trace.text, r.start, r.end))
        /\ \A n \in DOMAIN AnonymizeStores :
              /\ Contains(response.anonymized, AnonymizeStores[n][1])
              /\ get(token_map, AnonymizeStores[n][1]) = AnonymizeStores[n][2]

(***************************************************************************)
(* Properties of the routing and of the nodes' effects (SpecQuery)         *)
(***************************************************************************)
\* The step out of node n: the node returned and an edge was followed.
StepOutOf(n) == node = n /\ node' \notin {n, "raised"}

\* C23 (GradeDocuments routing): after relevance grading the next node is
\* generate iff at least one document survived, transform_query iff none
\* survived and retry_count < MAX_QUERY_RETRIES, and END iff none survived
\* and retry_count >= MAX_QUERY_RETRIES.
GradeDocumentsRouting ==
    [][StepOutOf("grade_documents") =>
          LET survived == state'.documents # <<>>
              retry_count == state'.retry_count
          IN  /\ node' \in {"generate", "transform_query", "END"}
              /\ (node' = "generate") <=> survived
              /\ (node' = "transform_query") <=>
                    (~survived /\ retry_count < MAX_QUERY_RETRIES)
              /\ (node' = "END") <=>
                    (~survived /\ retry_count >= MAX_QUERY_RETRIES)]_vars

\* The first retrieval found two documents, grading dropped both, and the
\* run was routed to its first rewrite.
GradeDocumentsRoutingWitness ==
    /\ node = "transform_query"
    /\ Len(trace.retrievals) = 1
    /\ trace.gradings = 2
    /\ state.documents = <<>>
    /\ state.retry_count = 0

RegenerationFrame ==
    /\ state'.documents = state.documents
    /\ state'.question = state.question
    /\ state'.retry_count = state.retry_count
    /\ state'.query_transformations = state.query_transformations
    /\ trace'.retrievals = trace.retrievals

\* C25 (Regeneration frame): the step from hallucination_check to generate
\* and the generate step that follows make no retrieval and leave the
\* surviving documents, the question, retry_count and the rewrite trail as
\* they were; only the answer and the verdict change.
RegenerationFrameKept ==
    [][/\ (StepOutOf("hallucination_check") /\ node' = "generate") =>
             (RegenerationFrame /\ state'.generation = state.generation)
       /\ (StepOutOf("generate") /\ state.hallucination_score # "") =>
             (/\ RegenerationFrame
              /\ state'.hallucination_score = state.hallucination_score)]_vars

\* An answer judged ungrounded has been regenerated, after one retrieval.
RegenerationFrameKeptWitness ==
    /\ node = "hallucination_check"
    /\ trace.generations = 2
    /\ trace.groundings = 1
    /\ Len(trace.retrievals) = 1
    /\ state.hallucination_score = "no"

\* C26 (Question mutation): the question of a run changes only in a
\* transform_query step; clarification_check, retrieve, grade_documents,
\* generate and hallucination_check leave it unchanged; every
\* transform_query step adds exactly 1 to retry_count and appends exactly
\* one entry to the rewrite trail.
QuestionMutation ==
    [][/\ (node # "idle" /\ state'.question # state.question) =>
             node = "transform_query"
       /\ StepOutOf("transform_query") =>
             /\ state'.retry_count = state.retry_count + 1
             /\ Len(state'.query_transformations) =
                   Len(state.query_transformations) + 1
             /\ SubSeq(state'.query_transformations, 1,
                       Len(state.query_transformations)) =
                   state.query_transformations]_vars

\* A rewrite has changed the question, and the run went through retrieval,
\* grading, generation and the groundedness check with the rewritten one.
QuestionMutationWitness ==
    /\ node = "END"
    /\ state.retry_count = 1
    /\ state.question # Head(trace.retrievals)
    /\ state.question = trace.retrievals[2]
    /\ trace.groundings = 1

\* C27 (Clarification options): a run that ends through the clarification
\* path (ambiguity judgment true) carries between 2 and 4 options; a run
\* whose judgment is false proceeds to retrieve whatever options came back.
ClarificationOptions ==
    /\ [](node = "END" /\ state.clarification_needed =>
             Len(state.clarification_options) \in 2..4)
    /\ [][StepOutOf("clarification_check") /\ ~state'.clarification_needed =>
             node' = "retrieve"]_vars

\* The documents graded "yes" (in any letter case), in the order they had.
KeptInOrder(documents, grades) ==
    LET keep == {i \in DOMAIN documents : lower(grades[i]) = "yes"}
        nth(j) == CHOOSE i \in keep : Cardinality({x \in keep : x < i}) = j - 1
    IN  [j \in 1..Cardinality(keep) |-> documents[nth(j)]]

\* C28 (Relevance grading is an order-preserving filter): the documents
\* after grade_documents are exactly the retrieved ones graded "yes", in the
\* order of the retrieval ranking: nothing added, duplicated or reordered,
\* and every document with another grade dropped.
OrderPreservingFilter ==
    /\ [](\A grades \in [DOMAIN state.documents -> BinaryScores] :
             grade_documents(state, grades).documents =
                 KeptInOrder(state.documents, grades))
    /\ [][StepOutOf("grade_documents") =>
             /\ \E grades \in [DOMAIN state.documents -> BinaryScores] :
                   state'.documents = KeptInOrder(state.documents, grades)
             /\ state'.question = state.question]_vars

\* Two retrieved documents were both graded relevant and both kept.
OrderPreservingFilterWitness ==
    /\ node = "generate"
    /\ trace.gradings = 2
    /\ Len(state.documents) = 2
    /\ state.documents[1] # state.documents[2]

\* C29 (No generation on empty context): generate is only ever entered with
\* at least one surviving document; generate with an empty list would return
\* the fixed fallback without calling the model; no answer synthesis call is
\* made while no document survives.
NoGenerationOnEmptyContext ==
    /\ [](node = "generate" => state.documents # <<>>)
    /\ [](\A answer \in Answers :
             LET st == [state EXCEPT !.documents = <<>>]
             IN  /\ generate(st, answer).generation = FallbackAnswer
                 /\ ~generate_calls_llm(st))
    /\ [][trace'.generations > trace.generations => state.documents # <<>>]_vars

\* Grading left nothing of what retrieval found, the rewrites were used up,
\* and the run ended without an answer synthesis call.
NoGenerationOnEmptyContextWitness ==
    /\ node = "END"
    /\ state.documents = <<>>
    /\ state.generation = Unset
    /\ trace.gradings > 0
    /\ trace.generations = 0

(***************************************************************************)
(* Fusion mode of hybrid_search (SpecStore)                                *)
(***************************************************************************)
\* C30 (Fusion mode per group): with no add_chunks call in flight, a
\* department's lexical index is unpopulated exactly when its collection
\* holds no chunks; a search fuses the semantic and the lexical candidates
\* of a department with equal weights when the index is populated and uses
\* the semantic candidates alone when it is not.
FusionModePerGroup ==
    ingest.pc = "idle" =>
        \A d \in Departments :
            /\ ~bm25[d].populated <=> collections[d] = {}
            /\ SemWeight = LexWeight
            /\ \A sem \in Rankings(collections[d], DefaultK),
                  lex \in Rankings(bm25[d].docs, DefaultK) :
                  DeptDocs(bm25[d], sem, lex) =
                      IF collections[d] # {} THEN Ensemble(sem, lex) ELSE sem

(***************************************************************************)
(* Order of the departments named to hybrid_search (SpecSearch)            *)
(***************************************************************************)
\* The list in the opposite order (the other permutation of a list of two).
Reverse(list) == [i \in DOMAIN list |-> list[Len(list) + 1 - i]]

\* C31 (Group order is irrelevant): with the store and the candidate lists
\* fixed, hybrid_search returns the same list for every permutation of the
\* departments it is given.
GroupOrderIrrelevant ==
    search.pc = "done" =>
        LoopExit(RunFixed(CallFrame(Reverse(search.departments), search.k),
                          trace.candidates)).result = search.result

(***************************************************************************)
(* Chunks and collections over a sequence of add_chunks calls (SpecStore)  *)
(***************************************************************************)
\* The identifiers of the chunks a collection holds.
Ids(chunks) == {x.id : x \in chunks}

\* C32 (Chunk ownership): after any sequence of add_chunks calls, every chunk
\* stored in a department's collection carries that department as its
\* department attribute, whatever attribute the incoming chunk carried, and
\* no chunk (identifier) is held by two collections.
ChunkOwnership ==
    \A d \in DOMAIN collections :
        \A x \in collections[d] :
            /\ x.department = d
            /\ \A e \in DOMAIN collections \ {d} : x.id \notin Ids(collections[e])

\* The same text of the same source and position has been ingested into
\* both departments.
ChunkOwnershipWitness ==
    /\ ingest.pc = "idle"
    /\ \E x \in collections["radiology"], y \in collections["pharmacy"] :
          /\ x.content = y.content
          /\ x.source = y.source
          /\ x.id[3] = y.id[3]
          /\ x.id # y.id

\* C33 (Chunk immutability): once a chunk is in a collection its content and
\* attributes never change; a later add_chunks call, also one that ingests
\* the same source name into the same department again, only adds chunks.
ChunkImmutability ==
    [][\A d \in DOMAIN collections : collections[d] \subseteq collections'[d]]_vars

RawAnswer ==
    IF state.generation = Unset THEN NoDocumentsAnswer ELSE state.generation

\* C36 (De-anonymization is role-gated): the answer and the source contents
\* of a response are de-anonymised only when the caller's role is doctor;
\* for every other role, admin included, they are the tokenised texts
\* unchanged; a clarification response is never de-anonymised.
RoleGatedDeanonymization ==
    node = "responded" =>
        /\ response.kind = "answer" =>
              IF trace.user.role = "doctor"
              THEN /\ response.answer = deanonymize(RawAnswer)
                   /\ \A i \in DOMAIN response.sources :
                         response.sources[i].content =
                             deanonymize(state.documents[i].content)
              ELSE /\ response.answer = RawAnswer
                   /\ response.sources = state.documents
        /\ response.kind = "clarification" =>
              /\ response.answer = ClarifyAnswer
              /\ response.options = state.clarification_options
              /\ response.sources = <<>>

\* An admin has been answered with an answer that still holds a token the
\* vault knows.
RoleGatedDeanonymizationWitness ==
    /\ node = "responded"
    /\ response.kind = "answer"
    /\ trace.user.role = "admin"
    /\ \E i \in DOMAIN response.answer : response.answer[i] \in DOMAIN TokenVault

\* The retrieval engine calls of the run, the one that failed included.
RetrievalCalls ==
    Len(trace.retrievals) + (IF trace.failed = "embedding" THEN 1 ELSE 0)

\* C38 (Bounded retrieval): one run calls the retrieval engine at most
\* MAX_QUERY_RETRIES + 1 times and the rewriter at most MAX_QUERY_RETRIES
\* times, and every retrieve step is followed by grade_documents.
BoundedRetrieval ==
    /\ [](/\ RetrievalCalls <= MAX_QUERY_RETRIES + 1
          /\ trace.rewrites <= MAX_QUERY_RETRIES)
    /\ [][StepOutOf("retrieve") => node' = "grade_documents"]_vars

\* The last retrieval the budget allows found documents that were graded
\* relevant.
BoundedRetrievalWitness ==
    /\ node = "generate"
    /\ RetrievalCalls = MAX_QUERY_RETRIES + 1
    /\ trace.rewrites = MAX_QUERY_RETRIES
    /\ trace.generations = 0

\* C39 (Sources match the final question): when a run ends with a generated
\* answer, the last retrieval was made with the final question and with
\* departments the caller may search, and the documents of the state are
\* what grading kept of that retrieval: the documents change only in
\* retrieve, which replaces them by the result of the search, and in
\* grade_documents, which filters them.
SourcesMatchFinalQuestion ==
    /\ []((/\ node \in {"END", "responded"}
           /\ trace.error = "none"
           /\ state.generation # Unset)
          => (/\ trace.retrievals # <<>>
              /\ trace.retrievals[Len(trace.retrievals)] = state.question
              /\ Range(state.departments)
                    \subseteq Range(get_user_departments(trace.user))))
    /\ [][(node # "idle" /\ state'.documents # state.documents) =>
             \/ /\ node = "retrieve"
                /\ state'.documents \in hybrid_search(state.departments, DefaultK)
                /\ trace'.retrievals = Append(trace.retrievals, state.question)
             \/ /\ node = "grade_documents"
                /\ \E grades \in [DOMAIN state.documents -> BinaryScores] :
                      state'.documents = KeptInOrder(state.documents, grades)]_vars

\* A run has ended with an answer generated from documents found for a
\* rewritten question.
SourcesMatchFinalQuestionWitness ==
    /\ node = "END"
    /\ state.generation \notin {Unset, <<>>}
    /\ state.documents # <<>>
    /\ state.retry_count >= 1
    /\ Len(trace.retrievals) = state.retry_count + 1

\* C40 (Grounded verdict on an empty answer): when generate has produced an
\* empty answer, hallucination_check sets the verdict to "yes" without
\* calling the grader, and the run goes to END with that empty answer and
\* the verdict "yes".
EmptyAnswerGrounded ==
    /\ [][(StepOutOf("hallucination_check") /\ state.generation = <<>>) =>
             /\ state'.hallucination_score = "yes"
             /\ trace'.groundings = trace.groundings
             /\ state'.generation = <<>>
             /\ node' = "END"]_vars
    /\ []((node = "responded" /\ trace.error = "none" /\ state.generation = <<>>)
          => (/\ response.kind = "answer"
              /\ response.answer = <<>>
              /\ response.hallucination_score = "yes"))

\* A run whose only answer was empty has ended, with no grader call made.
EmptyAnswerGroundedWitness ==
    /\ node = "responded"
    /\ state.generation = <<>>
    /\ response.hallucination_score = "yes"
    /\ trace.generations = 1
    /\ trace.groundings = 0

(***************************************************************************)
(* The user store under POST /auth/register and DELETE /admin/users        *)
(***************************************************************************)
Usernames == {"admin", "alice", "bob", "carol"}
\* body.role: three known roles and one that ROLE_HIERARCHY does not have.
RequestedRoles == {"admin", "doctor", "viewer", "root"}
\* body.departments: None, a configured department, one that is not.
RequestedUserDepartments == {{}, {"pharmacy"}, {"billing"}}

\* POST /auth/register: 400 when create_user raises ValueError.
RegisterUser(username, role, departments) ==
    LET out == create_user(users, username, role, departments)
    IN  /\ users' = out.rows
        /\ response' = [kind |-> "register", username |-> username,
                        status |-> IF out.raised THEN 400 ELSE 200]
        /\ UNCHANGED <<collections, bm25, ingest, search, node, state, steps, trace,
                       token_map, runs, bm25_k>>

\* DELETE /admin/users/{username}: 404 when delete_user returns False.
DeleteUser(username) ==
    LET out == delete_user(users, username)
    IN  /\ users' = out.rows
        /\ response' = [kind |-> "delete", username |-> username,
                        status |-> IF out.returned THEN 200 ELSE 404]
        /\ UNCHANGED <<collections, bm25, ingest, search, node, state, steps, trace,
                       token_map, runs, bm25_k>>

\* user_db = UserDB() on a store that has no row yet.
UsersInit ==
    /\ collections = [d \in Departments |-> {}]
    /\ bm25 = [d \in Departments |-> NoIndex]
    /\ ingest = IdleIngest
    /\ search = IdleSearch
    /\ node = "idle"
    /\ state = IdleState
    /\ steps = 0
    /\ trace = NoTrace
    /\ response = NoResponse
    /\ token_map = {}
    /\ users = seed_admin({})
    /\ runs = <<>>
    /\ bm25_k = [d \in Departments |-> DefaultK]

UsersNext ==
    \/ \E username \in Usernames, role \in RequestedRoles,
          departments \in RequestedUserDepartments :
          RegisterUser(username, role, departments)
    \/ \E username \in Usernames : DeleteUser(username)

SpecUsers == UsersInit /\ [][UsersNext]_vars

\* C37 (Admin users cannot be deleted): from an empty user store on, no
\* step removes a user whose role is admin, delete_user returns False (the
\* route answers 404) when the named user is an admin, and the seeded admin
\* account exists in every reachable state.
AdminsNeverDeleted ==
    /\ [][\A row \in users : row.role = "admin" => row \in users']_vars
    /\ [][\A username \in Usernames :
            (/\ response'.kind = "delete"
             /\ response'.username = username
             /\ \E row \in users : row.username = username /\ row.role = "admin")
            => response'.status = 404]_vars
    /\ [](\E row \in users : row.username = "admin" /\ row.role = "admin")

\* The deletion of an admin account created after the seeded one was asked
\* for and refused.
AdminsNeverDeletedWitness ==
    /\ response.kind = "delete"
    /\ response.status = 404
    /\ response.username # "admin"
    /\ \E row \in users : row.username = response.username /\ row.role = "admin"

(***************************************************************************)
(* Two /query runs side by side on the worker threads of app_graph.ainvoke *)
(***************************************************************************)
RunIds == {1, 2}

\* The callers and the inputs of the two runs.
RunUsers == {user \in Users : user.role \in {"doctor", "nurse"}}
RunRewrites == {<<" ", "mri", "scan", " ">>}
RunQuestions == Questions \cup {strip(rewritten) : rewritten \in RunRewrites}
RunAnswers == {<<"prior", "auth", "[Ref 1]">>}
RunVerdicts == {"yes", "no"}
RunClarifications ==
    {out \in ClarificationResults :
        out.is_ambiguous <=> out.clarification_options # <<>>}

\* The grades of one grade_documents call: every document kept, or none.
RunGrades(documents) ==
    {[i \in DOMAIN documents |-> score] : score \in {"yes", "no"}}

\* A run that has not been started: no GraphState yet, no hybrid_search
\* frame.  k_set: the frame has executed `bm25.k = k` for its department
\* and not yet ensemble.invoke.
IdleRun == [node |-> "idle", state |-> IdleState, frame |-> IdleSearch,
            k_set |-> FALSE]

\* The frame of the hybrid_search call of a run in retrieve: entered on the
\* first step, kept between the steps.
Frame(run) ==
    IF run.frame.pc = "idle"
    THEN CallFrame(run.state.departments, retrieve_k(run.state))
    ELSE run.frame

\* A node of run r returns: its update is merged into the state of that
\* run and the edge out of the node is followed.
RunStep(r, st) ==
    runs' = [runs EXCEPT ![r] = [node |-> workflow(runs[r].node, st), state |-> st,
                                 frame |-> IdleSearch, k_set |-> FALSE]]

runFrame == <<collections, bm25, ingest, search, node, state, steps, trace, response,
              token_map, users>>

\* query_documents up to app_graph.ainvoke, for a request that names no
\* department.
RunCall(r, user, question) ==
    /\ runs[r].node = "idle"
    /\ runs' = [runs EXCEPT ![r] =
                  [IdleRun EXCEPT !.node = "clarification_check",
                                  !.state = GraphInputs(question, user,
                                                get_user_departments(user))]]
    /\ UNCHANGED <<runFrame, bm25_k>>

RunClarificationCheck(r, out) ==
    /\ runs[r].node = "clarification_check"
    /\ RunStep(r, clarification_check(runs[r].state, out))
    /\ UNCHANGED <<runFrame, bm25_k>>

\* hybrid_search in retrieve, `bm25.k = k`: the write to the retriever the
\* store keeps for the department, for a department that has one.
RunSetK(r) ==
    LET s == Frame(runs[r])
        dept == lower(s.departments[s.i])
    IN  /\ runs[r].node = "retrieve"
        /\ ~runs[r].k_set
        /\ dept \in DOMAIN collections /\ bm25[dept].populated
        /\ bm25_k' = [bm25_k EXCEPT ![dept] = s.k]
        /\ runs' = [runs EXCEPT ![r].frame = s, ![r].k_set = TRUE]
        /\ UNCHANGED runFrame

\* hybrid_search in retrieve, the rest of one iteration: the two retrievers
\* are invoked, the lexical one returning as many candidates as its k says
\* at that moment.  After the last department retrieve returns.
RunInvoke(r) ==
    LET s == Frame(runs[r])
        dept == lower(s.departments[s.i])
        ranked == trace.candidates[retrieval_query(runs[r].state)]
        after == IF dept \notin DOMAIN collections THEN LoopSkip(s)
                 ELSE LoopBody(s, Truncate(ranked.sem[dept], s.k),
                               Truncate(ranked.lex[dept], bm25_k[dept]))
    IN  /\ runs[r].node = "retrieve"
        /\ \/ runs[r].k_set
           \/ dept \notin DOMAIN collections
           \/ ~bm25[dept].populated
        /\ IF after.i > Len(after.departments)
           THEN RunStep(r, retrieve(runs[r].state, LoopExit(after).result))
           ELSE runs' = [runs EXCEPT ![r].frame = after, ![r].k_set = FALSE]
        /\ UNCHANGED <<runFrame, bm25_k>>

RunGradeDocuments(r, grades) ==
    /\ runs[r].node = "grade_documents"
    /\ RunStep(r, grade_documents(runs[r].state, grades))
    /\ UNCHANGED <<runFrame, bm25_k>>

RunTransformQuery(r, rewritten) ==
    /\ runs[r].node = "transform_query"
    /\ RunStep(r, transform_query(runs[r].state, rewritten))
    /\ UNCHANGED <<runFrame, bm25_k>>

RunGenerate(r, answer) ==
    /\ runs[r].node = "generate"
    /\ RunStep(r, generate(runs[r].state, answer))
    /\ UNCHANGED <<runFrame, bm25_k>>

RunHallucinationCheck(r, score) ==
    /\ runs[r].node = "hallucination_check"
    /\ RunStep(r, hallucination_check(runs[r].state, score))
    /\ UNCHANGED <<runFrame, bm25_k>>

\* The store holds the seeded collections; the rankings the retrievers give
\* for each question are fixed for the behaviour (the contents do not
\* change); a BM25Retriever starts with the k of its class or with what an
\* earlier call left.
RunsInit ==
    /\ collections = SeededCollections
    /\ bm25 = [d \in Departments |-> InitBm25(collections[d], FALSE)]
    /\ ingest = IdleIngest
    /\ search = IdleSearch
    /\ node = "idle"
    /\ state = IdleState
    /\ steps = 0
    /\ trace \in [candidates : [RunQuestions -> CandidateLists(DefaultK)]]
    /\ response = NoResponse
    /\ token_map = {}
    /\ users = seed_admin({})
    /\ runs = [r \in RunIds |-> IdleRun]
    /\ bm25_k \in [Departments -> {1, DefaultK}]

RunsNext ==
    \/ \E r \in RunIds, user \in RunUsers, question \in Questions :
          RunCall(r, user, question)
    \/ \E r \in RunIds, out \in RunClarifications : RunClarificationCheck(r, out)
    \/ \E r \in RunIds : RunSetK(r)
    \/ \E r \in RunIds : RunInvoke(r)
    \/ \E r \in RunIds : \E grades \in RunGrades(runs[r].state.documents) :
          RunGradeDocuments(r, grades)
    \/ \E r \in RunIds, rewritten \in RunRewrites : RunTransformQuery(r, rewritten)
    \/ \E r \in RunIds, answer \in RunAnswers : RunGenerate(r, answer)
    \/ \E r \in RunIds, score \in RunVerdicts : RunHallucinationCheck(r, score)

SpecRuns == RunsInit /\ [][RunsNext]_vars

\* hybrid_search of a run that has the store to itself: every retriever
\* returns the k candidates the call asked for.
RECURSIVE RunAlone(_, _)
RunAlone(s, ranked) ==
    IF s.i > Len(s.departments) THEN LoopExit(s).result
    ELSE LET dept == lower(s.departments[s.i])
         IN  RunAlone(IF dept \notin DOMAIN collections THEN LoopSkip(s)
                      ELSE LoopBody(s, Truncate(ranked.sem[dept], s.k),
                                    Truncate(ranked.lex[dept], s.k)),
                      ranked)

\* The pipeline states one step of a run alone leads to from a pipeline
\* state, with the node that follows.
AloneSuccessors(n, st) ==
    LET follows(after) == [node |-> workflow(n, after), state |-> after]
    IN  CASE n = "idle" ->
               {[node |-> "clarification_check",
                 state |-> GraphInputs(question, user, get_user_departments(user))] :
                    question \in Questions, user \in RunUsers}
          [] n = "clarification_check" ->
               {follows(clarification_check(st, out)) : out \in RunClarifications}
          [] n = "retrieve" ->
               {follows(retrieve(st,
                    RunAlone(CallFrame(st.departments, retrieve_k(st)),
                             trace.candidates[retrieval_query(st)])))}
          [] n = "grade_documents" ->
               {follows(grade_documents(st, grades)) : grades \in RunGrades(st.documents)}
          [] n = "transform_query" ->
               {follows(transform_query(st, rewritten)) : rewritten \in RunRewrites}
          [] n = "generate" ->
               {follows(generate(st, answer)) : answer \in RunAnswers}
          [] n = "hallucination_check" ->
               {follows(hallucination_check(st, score)) : score \in RunVerdicts}
          [] OTHER -> {}

\* C35 (Pipeline state is private to one query): with two runs interleaved
\* in any order, a step changes the pipeline state of at most one run, and
\* every change of a run's pipeline state is the step the run would take
\* alone against the same collection contents.
PrivatePipelineState ==
    [][\A r \in RunIds :
          /\ runs'[r] # runs[r] => \A other \in RunIds \ {r} : runs'[other] = runs[other]
          /\ (runs'[r].state # runs[r].state \/ runs'[r].node # runs[r].node) =>
                [node |-> runs'[r].node, state |-> runs'[r].state]
                    \in AloneSuccessors(runs[r].node, runs[r].state)]_vars

\* Both runs have written the k of the same department's retriever and
\* neither has invoked it yet; one of them is retrieving for a rewritten
\* question, the other has documents of an earlier department.
PrivatePipelineStateWitness ==
    /\ \A r \in RunIds : runs[r].node = "retrieve" /\ runs[r].k_set
    /\ runs[1].frame.departments[runs[1].frame.i]
          = runs[2].frame.departments[runs[2].frame.i]
    /\ runs[1].state.retry_count >= 1
    /\ runs[2].frame.all_results # <<>>

====
